---- MODULE Spec2Model ----
(***************************************************************************)
(* Session-key encryption, decryption and explicit signature verification  *)
(* of gopenpgp (crypto/sessionkey.go), with the canonicalizer of           *)
(* internal/common.go.                                                     *)
(*                                                                         *)
(* OpenPGP packets are modelled symbolically: a byte stream is a sequence   *)
(* of packet records, a symmetrically encrypted packet remembers the       *)
(* cipher and key that produced it and opens only under the same pair, a   *)
(* signature remembers the key id and the bytes its hash covers.  The      *)
(* go-crypto calls made by sessionkey.go are modelled at the place of the  *)
(* call, by their documented behaviour.                                    *)
(***************************************************************************)
EXTENDS Integers, Sequences, FiniteSets, TLC

VARIABLES message, sk, now, dataPacket, origin, out, writerLog, text, armored, verified,
          lookup

vars == <<message, sk, now, dataPacket, origin, out, writerLog, text, armored, verified,
          lookup>>

cryptoVars == <<message, sk, now, dataPacket, origin, out, writerLog>>

textVars == <<text, armored, verified>>

(***************************************************************************)
(* Bounds of the model.                                                    *)
(***************************************************************************)
\* longest plaintext body, in bytes
MaxDataLen == 2
\* last value of the clock (seconds)
MaxNow == 1
\* longest text given to the canonicalizer, in characters
MaxTextLen == 4

\* internal.CreationTimeOffset: seconds a signature may lie in the future
CreationTimeOffset == 172800

Rep(b, n) == [i \in 1..n |-> b]

\* a body of n bytes: "a", CR, LF, "a", ...
Iota(n) == [i \in 1..n |-> IF i % 3 = 1 THEN "a" ELSE IF i % 3 = 2 THEN "\r" ELSE "\n"]

\* the first element of a sequence, as a sequence of at most one element
First(s) == IF s = <<>> THEN <<>> ELSE <<s[1]>>

(***************************************************************************)
(* Errors: nil, an ordinary error, or a SignatureVerificationError with    *)
(* its Status.                                                             *)
(***************************************************************************)
NoErr == [kind |-> "nil", msg |-> ""]

Err(m) == [kind |-> "error", msg |-> m]

SIGNATURE_OK == "SIGNATURE_OK"

SIGNATURE_NOT_SIGNED == "SIGNATURE_NOT_SIGNED"

SIGNATURE_NO_VERIFIER == "SIGNATURE_NO_VERIFIER"

SIGNATURE_FAILED == "SIGNATURE_FAILED"

SigErr(status) == [kind |-> "SignatureVerificationError", msg |-> status]

(***************************************************************************)
(* Cipher registry.                                                        *)
(***************************************************************************)
symKeyAlgos ==
    ("3des" :> "Cipher3DES") @@ ("tripledes" :> "Cipher3DES") @@
    ("cast5" :> "CipherCAST5") @@ ("aes128" :> "CipherAES128") @@
    ("aes192" :> "CipherAES192") @@ ("aes256" :> "CipherAES256")

AlgoNames == DOMAIN symKeyAlgos

\* packet.CipherFunction.KeySize(): key size in bytes, 0 for an unknown cipher
KeySize(cf) ==
    CASE cf = "Cipher3DES" -> 24
      [] cf = "CipherCAST5" -> 16
      [] cf = "CipherAES128" -> 16
      [] cf = "CipherAES192" -> 24
      [] cf = "CipherAES256" -> 32
      [] OTHER -> 0

GetCipherFunc(k) ==
    IF k.Algo \in AlgoNames
    THEN [cf |-> symKeyAlgos[k.Algo], err |-> NoErr]
    ELSE [cf |-> "", err |-> Err("gopenpgp: unsupported cipher function")]

checkSize(k) ==
    IF k.Algo \notin AlgoNames THEN Err("unknown symmetric key algorithm")
    ELSE IF KeySize(symKeyAlgos[k.Algo]) # Len(k.Key) THEN Err("wrong session key size")
    ELSE NoErr

(***************************************************************************)
(* Session keys.  A key is its bytes and its algorithm name.               *)
(***************************************************************************)
\* RandomToken(size): size bytes from the random source; the model draws
\* the byte r and repeats it
RandomToken(size, r) == [token |-> Rep(r, size), err |-> NoErr]

\* faulty variant: a generator that always draws an AES-256 sized key
GenerateSessionKeyAlgo_fixedSize(algo, r) ==
    IF algo \notin AlgoNames
    THEN [sk |-> <<>>, err |-> Err("gopenpgp: unknown symmetric key generation algorithm")]
    ELSE [sk |-> <<[Key |-> RandomToken(32, r).token, Algo |-> algo]>>, err |-> NoErr]

GenerateSessionKeyAlgo(algo, r) ==
    IF algo \notin AlgoNames
    THEN [sk |-> <<>>, err |-> Err("gopenpgp: unknown symmetric key generation algorithm")]
    ELSE [sk |-> <<[Key |-> RandomToken(KeySize(symKeyAlgos[algo]), r).token, Algo |-> algo]>>,
          err |-> NoErr]

GenerateSessionKey(r) == GenerateSessionKeyAlgo("aes256", r)

NewSessionKeyFromToken(token, algo) == [Key |-> token, Algo |-> algo]

(***************************************************************************)
(* Reverse lookup, cipher function to algorithm name.  Go leaves the order *)
(* of a range over a map unspecified: the order in which the registry's    *)
(* names are visited is an input, any permutation of the names.            *)
(***************************************************************************)
\* for k, v := range symKeyAlgos { if v == cipher { algo = k; break } }
\* over the names in the order o; "" when no entry matches
RECURSIVE rangeSymKeyAlgos(_, _)
rangeSymKeyAlgos(o, cipher) ==
    IF o = <<>> THEN ""
    ELSE IF symKeyAlgos[Head(o)] = cipher THEN Head(o)
    ELSE rangeSymKeyAlgos(Tail(o), cipher)

\* the names the loop above visits in the order o: up to and including the
\* first match, where it breaks, or all of them when no entry matches
RECURSIVE rangeVisited(_, _)
rangeVisited(o, cipher) ==
    IF o = <<>> THEN <<>>
    ELSE IF symKeyAlgos[Head(o)] = cipher THEN <<Head(o)>>
    ELSE <<Head(o)>> \o rangeVisited(Tail(o), cipher)

\* packet.EncryptedKey, after its decryption: the cipher function and the key
EncryptedKey(cipher, key) == [CipherFunc |-> cipher, Key |-> key]

\* faulty variant: the first name visited is taken without comparing its cipher
newSessionKeyFromEncrypted_noCompare(ek, o) ==
    LET algo == Head(o)
        k == [Key |-> ek.Key, Algo |-> algo]
    IN  IF checkSize(k) # NoErr
        THEN [sk |-> <<>>, err |-> Err("gopenpgp: unable to decrypt session key")]
        ELSE [sk |-> <<k>>, err |-> NoErr]

newSessionKeyFromEncrypted(ek, o) ==
    LET algo == rangeSymKeyAlgos(o, ek.CipherFunc)
        k == [Key |-> ek.Key, Algo |-> algo]
    IN  IF algo = ""
        THEN [sk |-> <<>>, err |-> Err("gopenpgp: unsupported cipher function")]
        ELSE IF checkSize(k) # NoErr
        THEN [sk |-> <<>>, err |-> Err("gopenpgp: unable to decrypt session key")]
        ELSE [sk |-> <<k>>, err |-> NoErr]

\* algo starts as constants.AES256 and is replaced by the first match
getAlgo(cipher, o) ==
    LET algo == rangeSymKeyAlgos(o, cipher)
    IN  IF algo = "" THEN "aes256" ELSE algo

(***************************************************************************)
(* Plain messages and key rings (crypto/message.go, crypto/keyring.go).    *)
(***************************************************************************)
IsBinary(m) == ~m.TextType

GetBinary(m) == m.Data

\* the first entity of the ring that holds an unlocked private key
RECURSIVE firstPrivate(_)
firstPrivate(entities) ==
    IF entities = <<>> THEN <<>>
    ELSE IF Head(entities).Private THEN <<Head(entities)>>
    ELSE firstPrivate(Tail(entities))

getSigningEntity(ring) ==
    LET e == firstPrivate(ring.entities)
    IN  IF e = <<>>
        THEN [entity |-> <<>>, err |-> Err("gopenpgp: cannot sign message, unable to unlock signer key")]
        ELSE [entity |-> e, err |-> NoErr]

\* EntityList.KeysByIdUsage(id, KeyFlagSign): the entities of the ring with this key id
KeysById(ring, id) == SelectSeq(ring.entities, LAMBDA e : e.KeyId = id)

(***************************************************************************)
(* Packets.  A stream of bytes is a sequence of packets.                   *)
(***************************************************************************)
Garbage == [type |-> "Garbage"]

LiteralData(isBinary, fileName, time, body) ==
    [type |-> "LiteralData", IsBinary |-> isBinary, FileName |-> fileName,
     Time |-> time, Body |-> body, truncated |-> FALSE]

OnePassSignature(keyId) == [type |-> "OnePassSignature", KeyId |-> keyId]

Signature(keyId, signed, created, lifetime) ==
    [type |-> "Signature", KeyId |-> keyId, Signed |-> signed,
     CreationTime |-> created, SigLifetimeSecs |-> lifetime]

Compressed(body) == [type |-> "Compressed", Body |-> body]

SymmetricallyEncrypted(c, key, body) ==
    [type |-> "SymmetricallyEncrypted", cipher |-> c, key |-> key, Body |-> body]

(***************************************************************************)
(* The writer chain of the encrypt direction.  A writer state holds the    *)
(* layers opened so far (outer to inner), the packets already written      *)
(* inside them, the open literal-data writer and the open signer, and the  *)
(* log of the writes and closes made on the two writers the code holds.    *)
(***************************************************************************)
NoWriter ==
    [layers |-> <<>>, cipher |-> "", key |-> <<>>, packets |-> <<>>, lit |-> <<>>,
     sign |-> <<>>, closed |-> TRUE, bytes |-> <<>>, err |-> NoErr, log |-> <<>>]

\* packet.SerializeSymmetricallyEncrypted(w, c, key, config)
SerializeSymmetricallyEncrypted(c, key) ==
    IF KeySize(c) # Len(key)
    THEN [NoWriter EXCEPT !.err = Err("SymmetricallyEncrypted.Serialize: bad key length")]
    ELSE [NoWriter EXCEPT !.layers = <<"SymmetricallyEncrypted">>, !.cipher = c,
                          !.key = key, !.closed = FALSE]

\* packet.SerializeCompressed(w, algo, config)
SerializeCompressed(w) == [w EXCEPT !.layers = Append(@, "Compressed")]

\* packet.SerializeLiteral(w, isBinary, fileName, time): the header holds the
\* name's length in one byte, a longer name is cut
SerializeLiteral(w, isBinary, fileName, time) ==
    LET name == IF Len(fileName) > 255 THEN SubSeq(fileName, 1, 255) ELSE fileName
    IN  [w EXCEPT !.layers = Append(@, "LiteralData"),
                  !.lit = <<LiteralData(isBinary, name, time, <<>>)>>]

\* openpgp.Sign(output, signed, hints, config): writes the one-pass packet,
\* opens the literal-data writer inside the signer.  hints.ModTime is the
\* uint32 modTime widened to int64 and narrowed back, which loses nothing
Sign(w, signEntity, hints, config) ==
    LET name == IF Len(hints.FileName) > 255 THEN SubSeq(hints.FileName, 1, 255)
                ELSE hints.FileName
    IN  [w EXCEPT !.layers = Append(@, "Signature"),
                  !.packets = Append(@, OnePassSignature(signEntity.KeyId)),
                  !.lit = <<LiteralData(hints.IsBinary, name, hints.ModTime, <<>>)>>,
                  !.sign = <<[KeyId |-> signEntity.KeyId, hashed |-> <<>>,
                              created |-> config.Time]>>]

\* signWriter.Write(data): the bytes go to the hash and to the literal-data writer
signWriterWrite(w, data) ==
    [w EXCEPT !.sign = <<[@[1] EXCEPT !.hashed = @ \o data]>>,
              !.lit = <<[@[1] EXCEPT !.Body = @ \o data]>>,
              !.log = Append(@, "signWriter.Write")]

\* signWriter.Close(): closes the literal-data writer, then writes the signature
\* packet to the writer it wraps; that writer stays open.  Once the wrapped
\* writer is closed its stream is final, and what is written lands behind it
signWriterClose(w) ==
    IF w.closed
    THEN [w EXCEPT !.bytes = Append(@, Garbage), !.lit = <<>>, !.sign = <<>>,
                   !.log = Append(@, "signWriter.Close")]
    ELSE [w EXCEPT !.packets = @ \o w.lit \o
                       <<Signature(w.sign[1].KeyId, w.sign[1].hashed, w.sign[1].created, 0)>>,
                   !.lit = <<>>, !.sign = <<>>,
                   !.log = Append(@, "signWriter.Close")]

\* encryptWriter.Write(data): to the literal-data writer when that is the
\* innermost layer of encryptWriter, else raw bytes inside the outer layers
encryptWriterWrite(w, data) ==
    IF w.layers # <<>> /\ w.layers[Len(w.layers)] = "LiteralData"
    THEN [w EXCEPT !.lit = <<[@[1] EXCEPT !.Body = @ \o data]>>,
                   !.log = Append(@, "encryptWriter.Write")]
    ELSE [w EXCEPT !.packets = Append(@, Garbage),
                   !.log = Append(@, "encryptWriter.Write")]

\* the packets wrapped in the layers, innermost layer first
RECURSIVE wrap(_, _, _)
wrap(layers, w, packets) ==
    IF layers = <<>> THEN packets
    ELSE LET l == layers[Len(layers)]
             rest == SubSeq(layers, 1, Len(layers) - 1)
         IN  IF l = "Compressed" THEN wrap(rest, w, <<Compressed(packets)>>)
             ELSE IF l = "SymmetricallyEncrypted"
                  THEN wrap(rest, w, <<SymmetricallyEncrypted(w.cipher, w.key, packets)>>)
                  ELSE wrap(rest, w, packets)

\* encryptWriter.Close(): every layer of encryptWriter is closed, inner to outer
encryptWriterClose(w) ==
    LET inner == IF w.layers[Len(w.layers)] = "LiteralData" THEN w.packets \o w.lit
                 ELSE w.packets
    IN  [w EXCEPT !.bytes = wrap(w.layers, w, inner), !.closed = TRUE, !.lit = <<>>,
                  !.log = Append(@, "encryptWriter.Close")]

\* faulty variant: the key is cut or zero-padded to the cipher's key size
encryptStreamWithSessionKey_fitKey(isBinary, filename, modTime, key, signEntity, config) ==
    LET n == KeySize(config.DefaultCipher)
        fit == [i \in 1..n |-> IF i <= Len(key.Key) THEN key.Key[i] ELSE 0]
        w0 == SerializeSymmetricallyEncrypted(config.DefaultCipher, fit)
        w1 == IF config.Compression THEN SerializeCompressed(w0) ELSE w0
    IN  IF w0.err # NoErr THEN w0
        ELSE IF signEntity # <<>>
             THEN Sign(w1, signEntity[1],
                       [IsBinary |-> isBinary, FileName |-> filename, ModTime |-> modTime],
                       config)
             ELSE SerializeLiteral(w1, isBinary, filename, modTime)

encryptStreamWithSessionKey(isBinary, filename, modTime, key, signEntity, config) ==
    LET w0 == SerializeSymmetricallyEncrypted(config.DefaultCipher, key.Key)
        w1 == IF config.Compression THEN SerializeCompressed(w0) ELSE w0
    IN  IF w0.err # NoErr THEN w0
        ELSE IF signEntity # <<>>
             THEN Sign(w1, signEntity[1],
                       [IsBinary |-> isBinary, FileName |-> filename, ModTime |-> modTime],
                       config)
             ELSE SerializeLiteral(w1, isBinary, filename, modTime)

\* faulty variant: the plaintext is written to the encryption writer when signing too
encryptWithSessionKey_writeToEncrypt(m, key, signEntity, config) ==
    LET w0 == encryptStreamWithSessionKey(IsBinary(m), m.Filename, m.Time, key, signEntity, config)
        w1 == encryptWriterWrite(w0, GetBinary(m))
        w2 == IF signEntity # <<>> THEN signWriterClose(w1) ELSE w1
        w3 == encryptWriterClose(w2)
    IN  IF w0.err # NoErr THEN [bytes |-> <<>>, err |-> w0.err, log |-> <<>>]
        ELSE IF w2.err # NoErr THEN [bytes |-> <<>>, err |-> w2.err, log |-> w2.log]
        ELSE [bytes |-> w3.bytes, err |-> NoErr, log |-> w3.log]

\* faulty variant: the encryption writer is closed before the signing writer
encryptWithSessionKey_closeOrder(m, key, signEntity, config) ==
    LET w0 == encryptStreamWithSessionKey(IsBinary(m), m.Filename, m.Time, key, signEntity, config)
        w1 == IF signEntity # <<>> THEN signWriterWrite(w0, GetBinary(m))
              ELSE encryptWriterWrite(w0, GetBinary(m))
        w2 == encryptWriterClose(w1)
        w3 == IF signEntity # <<>> THEN signWriterClose(w2) ELSE w2
    IN  IF w0.err # NoErr THEN [bytes |-> <<>>, err |-> w0.err, log |-> <<>>]
        ELSE IF w3.err # NoErr THEN [bytes |-> <<>>, err |-> w3.err, log |-> w3.log]
        ELSE [bytes |-> w3.bytes, err |-> NoErr, log |-> w3.log]

encryptWithSessionKey(m, key, signEntity, config) ==
    LET w0 == encryptStreamWithSessionKey(IsBinary(m), m.Filename, m.Time, key, signEntity, config)
        w1 == IF signEntity # <<>> THEN signWriterWrite(w0, GetBinary(m))
              ELSE encryptWriterWrite(w0, GetBinary(m))
        w2 == IF signEntity # <<>> THEN signWriterClose(w1) ELSE w1
        w3 == encryptWriterClose(w2)
    IN  IF w0.err # NoErr THEN [bytes |-> <<>>, err |-> w0.err, log |-> <<>>]
        ELSE IF w2.err # NoErr THEN [bytes |-> <<>>, err |-> w2.err, log |-> w2.log]
        ELSE [bytes |-> w3.bytes, err |-> NoErr, log |-> w3.log]

\* Encrypt, EncryptAndSign and EncryptWithCompression
Encrypt(key, m, t) ==
    LET dc == GetCipherFunc(key)
    IN  IF dc.err # NoErr THEN [bytes |-> <<>>, err |-> dc.err, log |-> <<>>]
        ELSE encryptWithSessionKey(m, key, <<>>,
                 [Time |-> t, DefaultCipher |-> dc.cf, Compression |-> FALSE])

EncryptAndSign(key, m, signKeyRing, t) ==
    LET dc == GetCipherFunc(key)
        se == getSigningEntity(signKeyRing)
    IN  IF dc.err # NoErr THEN [bytes |-> <<>>, err |-> dc.err, log |-> <<>>]
        ELSE IF se.err # NoErr THEN [bytes |-> <<>>, err |-> se.err, log |-> <<>>]
        ELSE encryptWithSessionKey(m, key, se.entity,
                 [Time |-> t, DefaultCipher |-> dc.cf, Compression |-> FALSE])

EncryptWithCompression(key, m, t) ==
    LET dc == GetCipherFunc(key)
    IN  IF dc.err # NoErr THEN [bytes |-> <<>>, err |-> dc.err, log |-> <<>>]
        ELSE encryptWithSessionKey(m, key, <<>>,
                 [Time |-> t, DefaultCipher |-> dc.cf, Compression |-> TRUE])

(***************************************************************************)
(* The decrypt direction.                                                  *)
(***************************************************************************)
\* (*SymmetricallyEncrypted).Decrypt(c, key): the plaintext stream
Decrypt_packet(p, c, key) ==
    IF KeySize(c) = 0 THEN [stream |-> <<>>, err |-> Err("unknown cipher")]
    ELSE IF Len(key) # KeySize(c)
         THEN [stream |-> <<>>, err |-> Err("SymmetricallyEncrypted: incorrect key length")]
    ELSE IF c # p.cipher \/ key # p.key
         THEN [stream |-> <<>>, err |-> Err("openpgp: incorrect key")]
    ELSE [stream |-> p.Body, err |-> NoErr]

NoMessageDetails ==
    [IsSigned |-> FALSE, SignedByKeyId |-> 0, SignedBy |-> <<>>, LiteralData |-> <<>>,
     rest |-> <<>>, Signature |-> <<>>, SignatureError |-> ""]

\* openpgp.ReadMessage(r, keyring, nil, config), up to the literal-data packet
RECURSIVE ReadMessage(_, _, _)
ReadMessage(stream, keyring, md) ==
    IF stream = <<>> THEN [md |-> md, err |-> Err("unexpected EOF")]
    ELSE LET p == Head(stream)
         IN  CASE p.type = "Garbage" -> [md |-> md, err |-> Err("openpgp: invalid data")]
               [] p.type = "Compressed" -> ReadMessage(p.Body \o Tail(stream), keyring, md)
               [] p.type = "OnePassSignature" ->
                    IF md.IsSigned
                    THEN [md |-> md, err |-> Err("openpgp: nested signatures")]
                    ELSE ReadMessage(Tail(stream), keyring,
                            [md EXCEPT !.IsSigned = TRUE, !.SignedByKeyId = p.KeyId,
                                       !.SignedBy = First(KeysById(keyring, p.KeyId))])
               [] p.type = "LiteralData" ->
                    [md |-> [md EXCEPT !.LiteralData = <<p>>, !.rest = Tail(stream)],
                     err |-> NoErr]
               [] p.type = "SymmetricallyEncrypted" ->
                    [md |-> md, err |-> Err("openpgp: incorrect key")]
               [] OTHER -> ReadMessage(Tail(stream), keyring, md)

\* (*Signature).SigExpired(currentTime)
SigExpired(sig, t) ==
    IF sig.CreationTime > t THEN TRUE
    ELSE IF sig.SigLifetimeSecs = 0 THEN FALSE
    ELSE t > sig.CreationTime + sig.SigLifetimeSecs

\* reading md.UnverifiedBody to its end: the body, and at its end the check of
\* the signature packet that follows, when the signer's key was found
readBody(md, t) ==
    LET lit == md.LiteralData[1]
    IN  IF lit.truncated
        THEN [md |-> md, data |-> <<>>, err |-> Err("unexpected EOF")]
        ELSE IF md.SignedBy = <<>>
        THEN [md |-> md, data |-> lit.Body, err |-> NoErr]
        ELSE IF md.rest = <<>> \/ md.rest[1].type # "Signature"
        THEN [md |-> [md EXCEPT !.SignatureError = "openpgp: LiteralData not followed by signature"],
              data |-> lit.Body, err |-> NoErr]
        ELSE LET sig == md.rest[1]
                 sigErr == IF sig.KeyId # md.SignedByKeyId \/ sig.Signed # lit.Body
                           THEN "openpgp: invalid signature"
                           ELSE IF SigExpired(sig, t) THEN "openpgp: signature expired"
                           ELSE ""
             IN  [md |-> [md EXCEPT !.Signature = <<sig>>, !.SignatureError = sigErr],
                  data |-> lit.Body, err |-> NoErr]

decryptStreamWithSessionKey(key, packets, verifyKeyRing) ==
    IF packets = <<>> \/ Head(packets).type = "Garbage"
    THEN [md |-> NoMessageDetails, err |-> Err("gopenpgp: unable to read symmetric packet")]
    ELSE IF Head(packets).type # "SymmetricallyEncrypted"
    THEN [md |-> NoMessageDetails, err |-> Err("gopenpgp: invalid packet type")]
    ELSE LET dc == GetCipherFunc(key)
             decrypted == Decrypt_packet(Head(packets), dc.cf, key.Key)
             keyring == IF verifyKeyRing.isNil THEN [entities |-> <<>>] ELSE verifyKeyRing
             r == ReadMessage(decrypted.stream, keyring, NoMessageDetails)
         IN  IF dc.err # NoErr
             THEN [md |-> NoMessageDetails, err |-> Err("gopenpgp: unable to decrypt with session key")]
             ELSE IF decrypted.err # NoErr
             THEN [md |-> NoMessageDetails, err |-> Err("gopenpgp: unable to decrypt symmetric packet")]
             ELSE IF r.err # NoErr
             THEN [md |-> NoMessageDetails, err |-> Err("gopenpgp: unable to decode symmetric packet")]
             ELSE [md |-> r.md, err |-> NoErr]

\* processSignatureExpiration(md, verifyTime) of crypto/signature.go
processSignatureExpiration(md, verifyTime) ==
    IF md.SignatureError # "openpgp: signature expired" THEN md
    ELSE IF verifyTime = 0 THEN [md EXCEPT !.SignatureError = ""]
    ELSE LET created == md.Signature[1].CreationTime
             life == md.Signature[1].SigLifetimeSecs
         IN  IF created - CreationTimeOffset <= verifyTime
                /\ (life = 0 \/ verifyTime <= created + life)
             THEN [md EXCEPT !.SignatureError = ""]
             ELSE md

\* verifyDetailsSignature(md, verifierKey) of crypto/signature.go
verifyDetailsSignature(md, verifierKey) ==
    IF ~md.IsSigned THEN SigErr(SIGNATURE_NOT_SIGNED)
    ELSE IF md.SignedBy = <<>> \/ verifierKey.entities = <<>>
            \/ KeysById(verifierKey, md.SignedByKeyId) = <<>>
    THEN SigErr(SIGNATURE_NO_VERIFIER)
    ELSE IF md.SignatureError # "" THEN SigErr(SIGNATURE_FAILED)
    ELSE NoErr

NilKeyRing == [isNil |-> TRUE, entities |-> <<>>]

\* the PlainMessage built from the body read and the literal-data packet
plainMessage(data, lit) ==
    [Data |-> data, TextType |-> ~lit.IsBinary, Filename |-> lit.FileName, Time |-> lit.Time]

\* faulty variant: a verification error suppresses the plaintext
DecryptAndVerify_dropOnSigErr(key, packets, verifyKeyRing, verifyTime, t) ==
    LET d == decryptStreamWithSessionKey(key, packets, verifyKeyRing)
        b == readBody(d.md, t)
        md == processSignatureExpiration(b.md, verifyTime)
        err == IF verifyKeyRing.isNil THEN NoErr ELSE verifyDetailsSignature(md, verifyKeyRing)
    IN  IF d.err # NoErr THEN [plain |-> <<>>, err |-> d.err]
        ELSE IF b.err # NoErr
        THEN [plain |-> <<>>, err |-> Err("gopenpgp: error in reading message body")]
        ELSE IF err # NoErr THEN [plain |-> <<>>, err |-> err]
        ELSE [plain |-> <<plainMessage(b.data, d.md.LiteralData[1])>>, err |-> err]

\* faulty variant: the verification error is returned as an ordinary error
DecryptAndVerify_wrapSigErr(key, packets, verifyKeyRing, verifyTime, t) ==
    LET d == decryptStreamWithSessionKey(key, packets, verifyKeyRing)
        b == readBody(d.md, t)
        md == processSignatureExpiration(b.md, verifyTime)
        err == IF verifyKeyRing.isNil THEN NoErr ELSE verifyDetailsSignature(md, verifyKeyRing)
    IN  IF d.err # NoErr THEN [plain |-> <<>>, err |-> d.err]
        ELSE IF b.err # NoErr
        THEN [plain |-> <<>>, err |-> Err("gopenpgp: error in reading message body")]
        ELSE [plain |-> <<plainMessage(b.data, d.md.LiteralData[1])>>,
              err |-> IF err = NoErr THEN NoErr ELSE Err(err.msg)]

\* faulty variant: the signature is never looked at
DecryptAndVerify_skipVerify(key, packets, verifyKeyRing, verifyTime, t) ==
    LET d == decryptStreamWithSessionKey(key, packets, verifyKeyRing)
        b == readBody(d.md, t)
    IN  IF d.err # NoErr THEN [plain |-> <<>>, err |-> d.err]
        ELSE IF b.err # NoErr
        THEN [plain |-> <<>>, err |-> Err("gopenpgp: error in reading message body")]
        ELSE [plain |-> <<plainMessage(b.data, d.md.LiteralData[1])>>, err |-> NoErr]

\* faulty variant: the signature is looked at without a verification key ring too
DecryptAndVerify_verifyAlways(key, packets, verifyKeyRing, verifyTime, t) ==
    LET d == decryptStreamWithSessionKey(key, packets, verifyKeyRing)
        b == readBody(d.md, t)
        md == processSignatureExpiration(b.md, verifyTime)
        err == verifyDetailsSignature(md, verifyKeyRing)
    IN  IF d.err # NoErr THEN [plain |-> <<>>, err |-> d.err]
        ELSE IF b.err # NoErr
        THEN [plain |-> <<>>, err |-> Err("gopenpgp: error in reading message body")]
        ELSE [plain |-> <<plainMessage(b.data, d.md.LiteralData[1])>>, err |-> err]

\* faulty variant: the text flag is copied from the binary flag
DecryptAndVerify_flag(key, packets, verifyKeyRing, verifyTime, t) ==
    LET d == decryptStreamWithSessionKey(key, packets, verifyKeyRing)
        b == readBody(d.md, t)
        md == processSignatureExpiration(b.md, verifyTime)
        err == IF verifyKeyRing.isNil THEN NoErr ELSE verifyDetailsSignature(md, verifyKeyRing)
    IN  IF d.err # NoErr THEN [plain |-> <<>>, err |-> d.err]
        ELSE IF b.err # NoErr
        THEN [plain |-> <<>>, err |-> Err("gopenpgp: error in reading message body")]
        ELSE [plain |-> <<[plainMessage(b.data, d.md.LiteralData[1])
                             EXCEPT !.TextType = d.md.LiteralData[1].IsBinary]>>,
              err |-> err]

DecryptAndVerify(key, packets, verifyKeyRing, verifyTime, t) ==
    LET d == decryptStreamWithSessionKey(key, packets, verifyKeyRing)
        b == readBody(d.md, t)
        md == processSignatureExpiration(b.md, verifyTime)
        err == IF verifyKeyRing.isNil THEN NoErr ELSE verifyDetailsSignature(md, verifyKeyRing)
    IN  IF d.err # NoErr THEN [plain |-> <<>>, err |-> d.err]
        ELSE IF b.err # NoErr
        THEN [plain |-> <<>>, err |-> Err("gopenpgp: error in reading message body")]
        ELSE [plain |-> <<plainMessage(b.data, d.md.LiteralData[1])>>, err |-> err]

Decrypt(key, packets, t) == DecryptAndVerify(key, packets, NilKeyRing, 0, t)

\* newExplicitVerifyMessage(message, err) of helper/helper.go, as
\* DecryptSessionKeyExplicitVerify applies it to DecryptAndVerify's results
newExplicitVerifyMessage(r) ==
    IF r.err.kind = "nil"
    THEN [Message |-> r.plain, SignatureVerificationError |-> <<>>, err |-> NoErr]
    ELSE IF r.err.kind = "SignatureVerificationError"
    THEN [Message |-> r.plain, SignatureVerificationError |-> <<r.err.msg>>, err |-> NoErr]
    ELSE [Message |-> <<>>, SignatureVerificationError |-> <<>>,
          err |-> Err("gopenpgp: unable to decrypt message")]

(***************************************************************************)
(* The canonicalizer (internal/common.go) and cleartext signing           *)
(* (helper/cleartext.go).  A text is a sequence of characters.             *)
(***************************************************************************)
\* strings.Split(text, "\n")
RECURSIVE Split(_)
Split(t) ==
    IF \A i \in 1..Len(t) : t[i] # "\n" THEN <<t>>
    ELSE LET i == CHOOSE j \in 1..Len(t) : t[j] = "\n" /\ \A k \in 1..(j - 1) : t[k] # "\n"
         IN  <<SubSeq(t, 1, i - 1)>> \o Split(SubSeq(t, i + 1, Len(t)))

\* strings.TrimRight(line, cutset)
RECURSIVE TrimRight(_, _)
TrimRight(line, cutset) ==
    IF line # <<>> /\ line[Len(line)] \in cutset
    THEN TrimRight(SubSeq(line, 1, Len(line) - 1), cutset)
    ELSE line

\* strings.Join(lines, sep)
RECURSIVE Join(_, _)
Join(lines, sep) ==
    IF lines = <<>> THEN <<>>
    ELSE IF Len(lines) = 1 THEN lines[1]
    ELSE lines[1] \o sep \o Join(Tail(lines), sep)

\* faulty variant: only spaces and tabs are trimmed
CanonicalizeAndTrim_keepCR(t) ==
    LET lines == Split(t)
    IN  Join([i \in 1..Len(lines) |-> TrimRight(lines[i], {" ", "\t"})], <<"\r", "\n">>)

CanonicalizeAndTrim(t) ==
    LET lines == Split(t)
    IN  Join([i \in 1..Len(lines) |-> TrimRight(lines[i], {" ", "\t", "\r"})], <<"\r", "\n">>)

\* strings.ReplaceAll(s, "\r\n", "\n")
RECURSIVE ReplaceCRLF(_)
ReplaceCRLF(t) ==
    IF t = <<>> THEN <<>>
    ELSE IF Len(t) >= 2 /\ t[1] = "\r" /\ t[2] = "\n"
         THEN <<"\n">> \o ReplaceCRLF(SubSeq(t, 3, Len(t)))
         ELSE <<t[1]>> \o ReplaceCRLF(Tail(t))

\* strings.ReplaceAll(s, "\n", "\r\n")
RECURSIVE ReplaceLF(_)
ReplaceLF(t) ==
    IF t = <<>> THEN <<>>
    ELSE IF t[1] = "\n" THEN <<"\r", "\n">> \o ReplaceLF(Tail(t))
         ELSE <<t[1]>> \o ReplaceLF(Tail(t))

\* crypto.NewPlainMessageFromString(text): line endings normalised to CRLF
NewPlainMessageFromString(t, time) ==
    [Data |-> ReplaceLF(ReplaceCRLF(t)), TextType |-> TRUE, Filename |-> <<>>, Time |-> time]

\* (*PlainMessage).GetString()
GetString(m) == ReplaceCRLF(m.Data)

NoArmored == [Data |-> <<>>, Signature |-> <<>>, err |-> NoErr]

NoVerified == [op |-> "none", text |-> <<>>, err |-> NoErr]

\* helper.SignCleartextMessage(keyRing, text): the cleartext message, its
\* body and its detached signature
SignCleartextMessage(keyRing, t, time) ==
    LET m == NewPlainMessageFromString(CanonicalizeAndTrim(t), time)
        se == getSigningEntity(keyRing)
    IN  IF se.err # NoErr THEN [NoArmored EXCEPT !.err = se.err]
        ELSE [Data |-> GetBinary(m),
              Signature |-> <<Signature(se.entity[1].KeyId, GetBinary(m), time, 0)>>,
              err |-> NoErr]

\* helper.VerifyCleartextMessage(keyRing, armored, verifyTime): the verified text
VerifyCleartextMessage(keyRing, a, verifyTime) ==
    LET m == NewPlainMessageFromString(CanonicalizeAndTrim(a.Data), verifyTime)
        sig == a.Signature[1]
    IN  IF KeysById(keyRing, sig.KeyId) = <<>> \/ sig.Signed # GetBinary(m)
        THEN [op |-> "VerifyCleartextMessage", text |-> <<>>,
              err |-> Err("gopenpgp: unable to verify the message")]
        ELSE [op |-> "VerifyCleartextMessage", text |-> GetString(m), err |-> NoErr]

(***************************************************************************)
(* Inputs of the model.                                                    *)
(***************************************************************************)
Bodies == {Iota(n) : n \in 0..MaxDataLen}

\* file names: none, and the two around the one-byte length of the header
FileNames == {Rep("a", n) : n \in {0, 255, 256}}

Messages == [Data : Bodies, TextType : {TRUE}, Filename : {<<>>}, Time : {0}]

LongNameMessages ==
    [Data : Bodies, TextType : BOOLEAN, Filename : FileNames, Time : {0, 2147483647}]

RandomBytes == {1, 2}

\* the algorithm names given to the operations: the whole registry and a
\* name outside it, or a part of them
AllAlgos == AlgoNames \cup {"blowfish"}

SomeAlgos == {"aes128", "cast5", "aes256", "blowfish"}

\* tokens of the AES-128 key size, one byte shorter and one byte longer
Tokens == {Rep(1, 15), Rep(1, 16), Rep(1, 17)}

TokenAlgos == {"aes128", "blowfish"}

Pub(id) == [KeyId |-> id, Private |-> FALSE]

Priv(id) == [KeyId |-> id, Private |-> TRUE]

KeyRing(entities) == [isNil |-> FALSE, entities |-> entities]

SignKeyRings == {KeyRing(<<Priv(1)>>), KeyRing(<<Pub(2), Priv(1)>>), KeyRing(<<Priv(2)>>),
                 KeyRing(<<Pub(1)>>)}

VerifyKeyRings == {NilKeyRing, KeyRing(<<>>), KeyRing(<<Pub(1)>>), KeyRing(<<Pub(2)>>),
                   KeyRing(<<Pub(2), Pub(1)>>)}

\* messages that did not come from this program's encrypt operations: what a
\* sender holding the session key k can put together
ReceivedKinds ==
    {"garbage", "literal", "se-garbage", "se-truncated", "bad-signature",
     "no-signature-packet", "future-signature", "near-future-signature"}

Received(kind, k, m, t) ==
    LET c == GetCipherFunc(k).cf
        lit == LiteralData(IsBinary(m), m.Filename, m.Time, GetBinary(m))
        signed(sig) == <<SymmetricallyEncrypted(c, k.Key, <<OnePassSignature(1), lit>> \o sig)>>
    IN  CASE kind = "garbage" -> <<Garbage>>
          [] kind = "literal" -> <<lit>>
          [] kind = "se-garbage" -> <<SymmetricallyEncrypted(c, k.Key, <<Garbage>>)>>
          [] kind = "se-truncated" ->
               <<SymmetricallyEncrypted(c, k.Key, <<[lit EXCEPT !.truncated = TRUE]>>)>>
          [] kind = "bad-signature" ->
               signed(<<Signature(1, Append(GetBinary(m), "x"), t, 0)>>)
          [] kind = "no-signature-packet" -> signed(<<>>)
          [] kind = "future-signature" ->
               signed(<<Signature(1, GetBinary(m), t + CreationTimeOffset + 1, 0)>>)
          [] kind = "near-future-signature" ->
               signed(<<Signature(1, GetBinary(m), t + 1, 0)>>)

NoOrigin ==
    [op |-> "none", kind |-> "", key |-> [Key |-> <<>>, Algo |-> ""], signer |-> 0, at |-> 0]

NoOut ==
    [op |-> "none", algo |-> "", at |-> 0, plain |-> <<>>, err |-> NoErr,
     ring |-> NilKeyRing, verifyTime |-> 0,
     explicit |-> [Message |-> <<>>, SignatureVerificationError |-> <<>>, err |-> NoErr]]

\* no reverse lookup made yet
NoLookup == [op |-> "", cipher |-> "", key |-> <<>>, visited |-> <<>>, algo |-> "", err |-> NoErr]

InitWith(msgs) ==
    /\ message \in msgs
    /\ sk = [Key |-> <<>>, Algo |-> ""]
    /\ now = 0
    /\ dataPacket = <<>>
    /\ origin = NoOrigin
    /\ out = NoOut
    /\ writerLog = <<>>
    /\ text = <<>>
    /\ armored = NoArmored
    /\ verified = NoVerified
    /\ lookup = NoLookup

Init == InitWith(Messages)

(***************************************************************************)
(* Operations.                                                             *)
(***************************************************************************)
Tick ==
    /\ now < MaxNow
    /\ now' = now + 1
    /\ UNCHANGED <<message, sk, dataPacket, origin, out, writerLog, textVars, lookup>>

DoGenerateSessionKeyAlgo(algos) ==
    \E algo \in algos, r \in RandomBytes :
        LET g == GenerateSessionKeyAlgo(algo, r)
        IN  /\ sk' = IF g.err = NoErr THEN g.sk[1] ELSE sk
            /\ out' = [NoOut EXCEPT !.op = "GenerateSessionKeyAlgo", !.algo = algo, !.err = g.err]
            /\ UNCHANGED <<message, now, dataPacket, origin, writerLog, textVars, lookup>>

DoGenerateSessionKey ==
    \E r \in RandomBytes :
        LET g == GenerateSessionKey(r)
        IN  /\ sk' = IF g.err = NoErr THEN g.sk[1] ELSE sk
            /\ out' = [NoOut EXCEPT !.op = "GenerateSessionKey", !.algo = "aes256", !.err = g.err]
            /\ UNCHANGED <<message, now, dataPacket, origin, writerLog, textVars, lookup>>

DoNewSessionKeyFromToken ==
    \E token \in Tokens, algo \in TokenAlgos :
        /\ sk' = NewSessionKeyFromToken(token, algo)
        /\ out' = [NoOut EXCEPT !.op = "NewSessionKeyFromToken"]
        /\ UNCHANGED <<message, now, dataPacket, origin, writerLog, textVars, lookup>>

Encrypted(op, r, signer) ==
    /\ dataPacket' = r.bytes
    /\ origin' = [op |-> op, kind |-> "", key |-> sk, signer |-> signer, at |-> now]
    /\ out' = [NoOut EXCEPT !.op = op, !.err = r.err]
    /\ writerLog' = r.log
    /\ UNCHANGED <<message, sk, now, textVars, lookup>>

DoEncrypt == Encrypted("Encrypt", Encrypt(sk, message, now), 0)

DoEncryptWithCompression ==
    Encrypted("EncryptWithCompression", EncryptWithCompression(sk, message, now), 0)

DoEncryptAndSign ==
    \E ring \in SignKeyRings :
        LET se == getSigningEntity(ring)
        IN  Encrypted("EncryptAndSign", EncryptAndSign(sk, message, ring, now),
                      IF se.err = NoErr THEN se.entity[1].KeyId ELSE 0)

\* a message arrives that another sender made with the session key
DoReceive ==
    \E kind \in ReceivedKinds :
        /\ checkSize(sk) = NoErr
        /\ dataPacket' = Received(kind, sk, message, now)
        /\ origin' = [op |-> "Receive", kind |-> kind, key |-> sk, signer |-> 1, at |-> now]
        /\ out' = NoOut
        /\ writerLog' = <<>>
        /\ UNCHANGED <<message, sk, now, textVars, lookup>>

Decrypted(op, r, ring, verifyTime) ==
    /\ out' = [op |-> op, algo |-> "", at |-> now, plain |-> r.plain, err |-> r.err,
               ring |-> ring, verifyTime |-> verifyTime,
               explicit |-> newExplicitVerifyMessage(r)]
    /\ UNCHANGED <<message, sk, now, dataPacket, origin, writerLog, textVars, lookup>>

DoDecrypt == Decrypted("Decrypt", Decrypt(sk, dataPacket, now), NilKeyRing, 0)

DoDecryptAndVerify ==
    \E ring \in VerifyKeyRings, verifyTime \in {0, now} :
        Decrypted("DecryptAndVerify", DecryptAndVerify(sk, dataPacket, ring, verifyTime, now),
                  ring, verifyTime)

Next ==
    \/ Tick
    \/ DoGenerateSessionKeyAlgo(SomeAlgos)
    \/ DoGenerateSessionKey
    \/ DoNewSessionKeyFromToken
    \/ DoEncrypt
    \/ DoEncryptWithCompression
    \/ DoEncryptAndSign
    \/ DoReceive
    \/ DoDecrypt
    \/ DoDecryptAndVerify

Spec == Init /\ [][Next]_vars

(***************************************************************************)
(* The round trip without signature and the key generator, over every      *)
(* algorithm of the registry and over long file names.                     *)
(***************************************************************************)
InitRoundTrip == InitWith(LongNameMessages)

NextRoundTrip ==
    \/ DoGenerateSessionKeyAlgo(AllAlgos)
    \/ DoGenerateSessionKey
    \/ DoEncrypt
    \/ DoEncryptWithCompression
    \/ DoDecrypt

SpecRoundTrip == InitRoundTrip /\ [][NextRoundTrip]_vars

(***************************************************************************)
(* Cleartext signing and verification of a text.                           *)
(***************************************************************************)
Chars == {"a", " ", "\t", "\r", "\n"}

Texts == UNION {[1..n -> Chars] : n \in 0..MaxTextLen}

InitCleartext ==
    /\ message = [Data |-> <<>>, TextType |-> TRUE, Filename |-> <<>>, Time |-> 0]
    /\ sk = [Key |-> <<>>, Algo |-> ""]
    /\ now = 0
    /\ dataPacket = <<>>
    /\ origin = NoOrigin
    /\ out = NoOut
    /\ writerLog = <<>>
    /\ text \in Texts
    /\ armored = NoArmored
    /\ verified = NoVerified
    /\ lookup = NoLookup

DoSignCleartextMessage ==
    \E ring \in SignKeyRings :
        /\ armored' = SignCleartextMessage(ring, text, now)
        /\ verified' = NoVerified
        /\ UNCHANGED <<cryptoVars, text, lookup>>

DoVerifyCleartextMessage ==
    \E ring \in {KeyRing(<<Pub(1)>>), KeyRing(<<Pub(2), Pub(1)>>)} :
        /\ armored.Signature # <<>>
        /\ verified' = VerifyCleartextMessage(ring, armored, now)
        /\ UNCHANGED <<cryptoVars, text, armored, lookup>>

NextCleartext ==
    \/ DoSignCleartextMessage
    \/ DoVerifyCleartextMessage

SpecCleartext == InitCleartext /\ [][NextCleartext]_vars

(***************************************************************************)
(* The registry's reverse lookup: session keys built from encrypted-key    *)
(* packets, and getAlgo, under every iteration order of the registry.      *)
(***************************************************************************)
\* the cipher functions of the registry
RegistryCiphers == {symKeyAlgos[n] : n \in AlgoNames}

\* cipher functions a packet can name: the registry's and one outside it
Ciphers == RegistryCiphers \cup {"CipherUnknown"}

\* encrypted-key packets: for each cipher of the registry a key of its key
\* size and a key of 15 bytes, the size of none; one packet of another cipher
EncryptedKeys ==
    UNION {{EncryptedKey(c, Rep(1, n)) : n \in {KeySize(c), 15}} : c \in RegistryCiphers}
        \cup {EncryptedKey("CipherUnknown", Rep(1, 16))}

\* the orders a range over the registry can take: the permutations of its names
Orders ==
    {o \in [1..Cardinality(AlgoNames) -> AlgoNames] :
        \A i, j \in 1..Cardinality(AlgoNames) : o[i] = o[j] => i = j}

\* an encrypted-key packet, before any lookup
InitRegistry ==
    /\ message = [Data |-> <<>>, TextType |-> TRUE, Filename |-> <<>>, Time |-> 0]
    /\ sk = [Key |-> <<>>, Algo |-> ""]
    /\ now = 0
    /\ dataPacket = <<>>
    /\ origin = NoOrigin
    /\ out = NoOut
    /\ writerLog = <<>>
    /\ text = <<>>
    /\ armored = NoArmored
    /\ verified = NoVerified
    /\ \E ek \in EncryptedKeys :
          lookup = [NoLookup EXCEPT !.cipher = ek.CipherFunc, !.key = ek.Key]

\* every execution of a range over the registry takes an order of its own
DoNewSessionKeyFromEncrypted ==
    \E o \in Orders :
        LET r == newSessionKeyFromEncrypted(EncryptedKey(lookup.cipher, lookup.key), o)
        IN  /\ sk' = IF r.err = NoErr THEN r.sk[1] ELSE sk
            /\ lookup' = [lookup EXCEPT !.op = "newSessionKeyFromEncrypted",
                                        !.visited = rangeVisited(o, lookup.cipher),
                                        !.algo = IF r.err = NoErr THEN r.sk[1].Algo ELSE "",
                                        !.err = r.err]
            /\ UNCHANGED <<message, now, dataPacket, origin, out, writerLog, textVars>>

DoGetAlgo ==
    \E o \in Orders :
        /\ lookup' = [lookup EXCEPT !.op = "getAlgo",
                                    !.visited = rangeVisited(o, lookup.cipher),
                                    !.algo = getAlgo(lookup.cipher, o),
                                    !.err = NoErr]
        /\ UNCHANGED <<cryptoVars, textVars>>

NextRegistry ==
    \/ DoNewSessionKeyFromEncrypted
    \/ DoGetAlgo

SpecRegistry == InitRegistry /\ [][NextRegistry]_vars

(***************************************************************************)
(* Properties.                                                             *)
(***************************************************************************)
\* the last operation decrypted what op produced under the key still held
DecryptedOwn(decryptOp, encryptOp) ==
    /\ out.op = decryptOp
    /\ origin.op = encryptOp
    /\ dataPacket # <<>>
    /\ origin.key = sk

\* C1 as stated: Decrypt(Encrypt(P, K), K) succeeds and returns the data, the
\* text flag, the file name and the modification time of P, for every P and
\* every K whose length matches its algorithm.
C1_RoundTripExact ==
    (DecryptedOwn("Decrypt", "Encrypt") /\ checkSize(sk) = NoErr)
        => (out.err = NoErr /\ out.plain = <<message>>)

\* C1 amended: Decrypt(Encrypt(P, K), K) succeeds and returns the data, the
\* text flag and the modification time of P, and P's file name cut to its
\* first 255 bytes: the file name itself when it is at most 255 bytes long.
C1_RoundTripUpTo255 ==
    (DecryptedOwn("Decrypt", "Encrypt") /\ checkSize(sk) = NoErr)
        => /\ out.err = NoErr
           /\ Len(out.plain) = 1
           /\ out.plain[1].Data = message.Data
           /\ out.plain[1].TextType = message.TextType
           /\ out.plain[1].Time = message.Time
           /\ out.plain[1].Filename =
                  [i \in 1..(IF Len(message.Filename) > 255 THEN 255
                             ELSE Len(message.Filename)) |-> message.Filename[i]]
           /\ (Len(message.Filename) <= 255 => out.plain = <<message>>)

C1_Witness ==
    /\ DecryptedOwn("Decrypt", "Encrypt")
    /\ checkSize(sk) = NoErr
    /\ sk.Algo = "cast5"
    /\ Len(message.Filename) = 255
    /\ message.Data # <<>>
    /\ ~message.TextType
    /\ message.Time # 0
    /\ out.plain = <<message>>

\* C2: decrypting EncryptAndSign(P, K, S) with K, a verification key ring
\* that holds the signer's public key, and the current time returns P's
\* content and no signature verification error (status verified).
C2_SignedRoundTripVerified ==
    (/\ DecryptedOwn("DecryptAndVerify", "EncryptAndSign")
     /\ ~out.ring.isNil
     /\ KeysById(out.ring, origin.signer) # <<>>
     /\ out.verifyTime = out.at)
        => /\ out.err = NoErr
           /\ out.explicit.err = NoErr
           /\ out.explicit.SignatureVerificationError = <<>>
           /\ Len(out.plain) = 1
           /\ out.plain[1].Data = message.Data

C2_Witness ==
    /\ DecryptedOwn("DecryptAndVerify", "EncryptAndSign")
    /\ out.ring = KeyRing(<<Pub(2), Pub(1)>>)
    /\ origin.signer = 1
    /\ origin.at = 0
    /\ out.at = 1
    /\ out.verifyTime = 1
    /\ out.err = NoErr
    /\ out.plain = <<message>>
    /\ message.Data # <<>>

\* C3: a signed message decrypted with a verification key ring that does not
\* hold the signer's public key gets the status no-verifier, never failed;
\* decryption reports no error and the plaintext is recovered.
C3_NoVerifier ==
    (/\ DecryptedOwn("DecryptAndVerify", "EncryptAndSign")
     /\ ~out.ring.isNil
     /\ KeysById(out.ring, origin.signer) = <<>>)
        => /\ out.err = SigErr(SIGNATURE_NO_VERIFIER)
           /\ out.explicit.err = NoErr
           /\ out.explicit.SignatureVerificationError = <<SIGNATURE_NO_VERIFIER>>
           /\ out.explicit.Message = out.plain
           /\ Len(out.plain) = 1
           /\ out.plain[1].Data = message.Data

C3_Witness ==
    /\ DecryptedOwn("DecryptAndVerify", "EncryptAndSign")
    /\ out.ring = KeyRing(<<Pub(2)>>)
    /\ origin.signer = 1
    /\ out.err = SigErr(SIGNATURE_NO_VERIFIER)
    /\ out.plain = <<message>>
    /\ message.Data # <<>>

\* C4: a ciphertext of Encrypt (no signature) decrypted with the same key and
\* a non-empty verification key ring gets the status not-signed; decryption
\* reports no error and the recovered text is the original text.
C4_NotSigned ==
    (/\ DecryptedOwn("DecryptAndVerify", "Encrypt")
     /\ ~out.ring.isNil
     /\ out.ring.entities # <<>>)
        => /\ out.err = SigErr(SIGNATURE_NOT_SIGNED)
           /\ out.explicit.err = NoErr
           /\ out.explicit.SignatureVerificationError = <<SIGNATURE_NOT_SIGNED>>
           /\ Len(out.explicit.Message) = 1
           /\ GetString(out.explicit.Message[1]) = GetString(message)

C4_Witness ==
    /\ DecryptedOwn("DecryptAndVerify", "Encrypt")
    /\ out.ring = KeyRing(<<Pub(1)>>)
    /\ out.err = SigErr(SIGNATURE_NOT_SIGNED)
    /\ out.plain = <<message>>
    /\ message.Data # <<>>

\* whether one of the steps before verification fails on the packet held:
\* parsing, cipher lookup, symmetric decryption, message decoding, body reading
DecryptionFails ==
    LET d == decryptStreamWithSessionKey(sk, dataPacket, out.ring)
    IN  d.err # NoErr \/ readBody(d.md, out.at).err # NoErr

\* C5: DecryptAndVerify returns an error and no plaintext whenever a step
\* before verification fails, and the plaintext whenever those steps succeed,
\* whatever the signature status; a decryption failure is never a signature
\* status.
C5_PlaintextAndStatusIndependent ==
    out.op \in {"Decrypt", "DecryptAndVerify"}
        => IF DecryptionFails
           THEN out.plain = <<>> /\ out.err.kind = "error"
           ELSE Len(out.plain) = 1 /\ out.err.kind \in {"nil", "SignatureVerificationError"}

C5_Witness ==
    /\ out.op = "DecryptAndVerify"
    /\ origin.kind = "bad-signature"
    /\ ~DecryptionFails
    /\ out.err = SigErr(SIGNATURE_FAILED)
    /\ out.plain = <<message>>
    /\ message.Data # <<>>

\* the key's algorithm is in the registry and its length is not the registry's
WrongSize(k) == k.Algo \in AlgoNames /\ Len(k.Key) # KeySize(symKeyAlgos[k.Algo])

EncryptOps == {"Encrypt", "EncryptAndSign", "EncryptWithCompression"}

\* C6: with a session key whose length differs from the registry key size of
\* its algorithm, each of Encrypt, EncryptAndSign, EncryptWithCompression,
\* Decrypt and DecryptAndVerify fails with an error and returns no output,
\* and no writer was written to: the key is never cut or padded.
C6_WrongSizeRejected ==
    (WrongSize(sk) /\ out.op \in EncryptOps \cup {"Decrypt", "DecryptAndVerify"})
        => /\ out.err.kind = "error"
           /\ out.plain = <<>>
           /\ out.explicit.Message = <<>>
           /\ (out.op \in EncryptOps => dataPacket = <<>> /\ writerLog = <<>>)

C6_Witness ==
    /\ WrongSize(sk)
    /\ Len(sk.Key) = 17
    /\ out.op = "EncryptAndSign"
    /\ origin.signer = 1
    /\ out.err.kind = "error"
    /\ dataPacket = <<>>

\* C7 as stated: plain Decrypt reports the status not-signed together with the
\* plaintext, for every message that decrypts.
C7_DecryptReportsNotSigned ==
    (out.op = "Decrypt" /\ ~DecryptionFails)
        => /\ Len(out.plain) = 1
           /\ out.err = SigErr(SIGNATURE_NOT_SIGNED)

\* What Decrypt does in the case of C7: it evaluates no signature and reports
\* no signature status; for every message that decrypts, signed or not, it
\* returns the plaintext with a nil error, the value DecryptAndVerify returns
\* for a verified signature, and its error is never a signature status.
C7_DecryptReportsNoStatus ==
    out.op = "Decrypt"
        => /\ out.err.kind # "SignatureVerificationError"
           /\ ~DecryptionFails
                => /\ out.err = NoErr
                   /\ out.explicit.SignatureVerificationError = <<>>
                   /\ Len(out.plain) = 1
                   /\ out.plain[1].Data = message.Data

\* Decrypt returned the plaintext of a message whose signature does not match
\* its body, with a nil error and no status
C7_Witness ==
    /\ out.op = "Decrypt"
    /\ origin.kind = "bad-signature"
    /\ ~DecryptionFails
    /\ out.err = NoErr
    /\ out.plain = <<message>>
    /\ message.Data # <<>>

\* C8: for every algorithm name A of the registry GenerateSessionKeyAlgo(A)
\* returns a key tagged A whose length is the registry key size of A and on
\* which checkSize succeeds; GenerateSessionKey does so for AES-256.
C8_GeneratedKeySize ==
    out.op \in {"GenerateSessionKeyAlgo", "GenerateSessionKey"}
        => IF out.algo \in AlgoNames
           THEN /\ out.err = NoErr
                /\ sk.Algo = out.algo
                /\ Len(sk.Key) = KeySize(symKeyAlgos[out.algo])
                /\ Len(sk.Key) > 0
                /\ checkSize(sk) = NoErr
                /\ (out.op = "GenerateSessionKey" => sk.Algo = "aes256" /\ Len(sk.Key) = 32)
           ELSE out.err.kind = "error"

C8_Witness ==
    /\ out.op = "GenerateSessionKeyAlgo"
    /\ out.algo = "tripledes"
    /\ sk.Algo = "tripledes"
    /\ Len(sk.Key) = 24
    /\ out.err = NoErr

\* C9: the ciphertext of a successful encryption is, outer to inner, one
\* symmetrically encrypted packet, a compressed packet only when compression
\* is configured, then the one-pass signature, literal-data and signature
\* packets when signing, else the literal-data packet alone; when signing the
\* plaintext is written to the signing writer only, which is closed before
\* the encryption writer, and the signature covers the literal body, which is
\* the plaintext.
C9_LayeringAndCloseOrder ==
    (origin.op \in EncryptOps /\ dataPacket # <<>>)
        => /\ Len(dataPacket) = 1
           /\ dataPacket[1].type = "SymmetricallyEncrypted"
           /\ dataPacket[1].cipher = symKeyAlgos[origin.key.Algo]
           /\ dataPacket[1].key = origin.key.Key
           /\ Len(dataPacket[1].Body) >= 1
           /\ (dataPacket[1].Body[1].type = "Compressed"
                  <=> origin.op = "EncryptWithCompression")
           /\ LET payload == IF origin.op = "EncryptWithCompression"
                             THEN dataPacket[1].Body[1].Body
                             ELSE dataPacket[1].Body
              IN  /\ origin.op = "EncryptWithCompression" => Len(dataPacket[1].Body) = 1
                  /\ IF origin.op = "EncryptAndSign"
                     THEN /\ Len(payload) = 3
                          /\ payload[1] = OnePassSignature(origin.signer)
                          /\ payload[2].type = "LiteralData"
                          /\ payload[2].Body = message.Data
                          /\ payload[3].type = "Signature"
                          /\ payload[3].KeyId = origin.signer
                          /\ payload[3].Signed = payload[2].Body
                          /\ writerLog = <<"signWriter.Write", "signWriter.Close",
                                           "encryptWriter.Close">>
                     ELSE /\ Len(payload) = 1
                          /\ payload[1].type = "LiteralData"
                          /\ payload[1].Body = message.Data
                          /\ writerLog = <<"encryptWriter.Write", "encryptWriter.Close">>

C9_Witness ==
    /\ origin.op = "EncryptAndSign"
    /\ dataPacket # <<>>
    /\ origin.signer = 2
    /\ message.Data # <<>>
    /\ writerLog = <<"signWriter.Write", "signWriter.Close", "encryptWriter.Close">>

\* The canonical form as the specification words it, from the positions of
\* the line feeds: line k of the text, its trailing blanks removed, the
\* lines joined by the separator.
LineFeeds(t) == {i \in 1..Len(t) : t[i] = "\n"}

NumLines(t) == Cardinality(LineFeeds(t)) + 1

\* the position of the k-th line feed, 0 before the first line and Len + 1
\* after the last
LineFeedAt(t, k) ==
    IF k = 0 THEN 0
    ELSE IF k > Cardinality(LineFeeds(t)) THEN Len(t) + 1
    ELSE CHOOSE p \in LineFeeds(t) : Cardinality({q \in LineFeeds(t) : q < p}) = k - 1

LineOf(t, k) == SubSeq(t, LineFeedAt(t, k - 1) + 1, LineFeedAt(t, k) - 1)

Blanks == {" ", "\t", "\r"}

Stripped(line) ==
    LET n == CHOOSE m \in 0..Len(line) :
                 /\ (m = 0 \/ line[m] \notin Blanks)
                 /\ \A j \in (m + 1)..Len(line) : line[j] \in Blanks
    IN  SubSeq(line, 1, n)

RECURSIVE StrippedLinesFrom(_, _, _)
StrippedLinesFrom(t, k, sep) ==
    IF k >= NumLines(t) THEN Stripped(LineOf(t, k))
    ELSE Stripped(LineOf(t, k)) \o sep \o StrippedLinesFrom(t, k + 1, sep)

CleartextSigned == armored.Signature # <<>>

CleartextVerified == verified.op = "VerifyCleartextMessage" /\ verified.err = NoErr

\* C10 as stated: the canonical form is the text's lines, trailing spaces,
\* tabs and carriage returns removed, joined by CRLF, with as many lines as
\* the text; a cleartext sign and verify round trip returns this canonical
\* form and not the original text.
C10_RoundTripReturnsCanonical ==
    /\ CleartextSigned => armored.Data = StrippedLinesFrom(text, 1, <<"\r", "\n">>)
    /\ CleartextVerified
          => /\ verified.text = StrippedLinesFrom(text, 1, <<"\r", "\n">>)
             /\ verified.text # text

\* C10 amended: the canonical form is as stated, and it is the body of the
\* cleartext message; the sign and verify round trip returns the canonical
\* form with each CRLF turned back into LF, that is the stripped lines joined
\* by LF, which is the original text exactly when no line of the text ends in
\* a space, a tab or a carriage return.
C10_RoundTripReturnsCanonicalLF ==
    /\ CleartextSigned
          => /\ armored.Data = StrippedLinesFrom(text, 1, <<"\r", "\n">>)
             /\ Cardinality(LineFeeds(armored.Data)) = Cardinality(LineFeeds(text))
             /\ \A i \in LineFeeds(armored.Data) : i > 1 /\ armored.Data[i - 1] = "\r"
    /\ CleartextVerified
          => /\ verified.text = StrippedLinesFrom(text, 1, <<"\n">>)
             /\ verified.text = text
                   <=> \A k \in 1..NumLines(text) :
                           Stripped(LineOf(text, k)) = LineOf(text, k)

C10_Witness ==
    /\ CleartextVerified
    /\ text = <<"a", " ", "\n", "\r">>
    /\ armored.Data = <<"a", "\r", "\n">>
    /\ verified.text = <<"a", "\n">>

\* C11: for every cipher function present in the registry, the reverse lookup
\* returns, whatever the order the registry is iterated in, a name that the
\* forward lookup maps back to that cipher function: getAlgo returns such a
\* name, newSessionKeyFromEncrypted never reports the cipher unsupported, builds
\* a key exactly when the packet's key has the cipher's key size, and the key
\* built holds the packet's key bytes and has the packet's cipher function.
C11_ReverseLookupMapsBack ==
    /\ (lookup.op = "getAlgo" /\ lookup.cipher \in RegistryCiphers)
          => /\ lookup.algo \in AlgoNames
             /\ symKeyAlgos[lookup.algo] = lookup.cipher
    /\ (lookup.op = "newSessionKeyFromEncrypted" /\ lookup.cipher \in RegistryCiphers)
          => /\ lookup.err # Err("gopenpgp: unsupported cipher function")
             /\ (lookup.err = NoErr) <=> (Len(lookup.key) = KeySize(lookup.cipher))
             /\ lookup.err = NoErr
                   => /\ sk.Key = lookup.key
                      /\ sk.Algo = lookup.algo
                      /\ GetCipherFunc(sk).err = NoErr
                      /\ GetCipherFunc(sk).cf = lookup.cipher

\* getAlgo answered "3des" for a 3DES packet, having visited "aes256" and then
\* "3des", after a key built from the same packet under another iteration
\* order had got the alias "tripledes"
C11_Witness ==
    /\ lookup.op = "getAlgo"
    /\ lookup.cipher = "Cipher3DES"
    /\ lookup.visited = <<"aes256", "3des">>
    /\ lookup.algo = "3des"
    /\ sk.Algo = "tripledes"
    /\ Len(sk.Key) = 24
    /\ GetCipherFunc(sk).cf = "Cipher3DES"

====
